---- MODULE Spec2Model ----
(***************************************************************************)
(* Segmented shortest-path retrieval over a bounded-hop graph store.       *)
(*                                                                         *)
(* The module models the request handler run_graph_query of                *)
(* spanner_graph_run_DQ.py (the segmented service) and of                  *)
(* spanner_graph_run.py (the single-query service) as a state machine      *)
(* whose steps are the handler's blocking round trips to the store.        *)
(*                                                                         *)
(* The store is a set of directed edges, each a record                     *)
(* [STARTNODEID, SEGMENTID, ENDNODEID]; an edge of label SEGMENTO or       *)
(* REVERSE_SEGMENTO is traversed from its STARTNODEID to its ENDNODEID.    *)
(* The quantified pattern -[s]->{1,k} matches walks of 1..k edges, so the  *)
(* distance used below is the length of the shortest walk of at least one  *)
(* edge.  The logging collaborator returns normally in specification Spec. *)
(***************************************************************************)
EXTENDS Integers, Sequences, FiniteSets, TLC

VARIABLES
    service,                \* which of the two programs serves the request
    store,                  \* name of the graph held by the store
    args,                   \* request.args: the raw start_node and end_node
    pc,                     \* position of the handler
    start_node_id,
    end_node_id,
    path_length,
    remaining_path_length,
    current_start_node,
    chunk_size,
    intermediate_end_node,  \* <<>> is None, <<n>> is node n
    outputs,
    gql_query,              \* the accumulated query text, one entry per query appended
    snapshot,               \* the snapshot blocks of the request: how many are open, how many were entered
    queries,                \* every execute_sql call of this invocation, in order
    logs,                   \* every logger call of this invocation, in order
    response,               \* <<>> until the handler returns, then <<[status, body]>>
    fault,                  \* <<>>, or <<m>> once a store query of this invocation raised m
    invocation,             \* number of the current invocation of the handler
    previous,               \* <<>>, or the outcome of the previous invocation
    running,                \* the request whose frame the variables above hold
    parked                  \* <<>>, or the frame of a concurrent request that is not running

vars == << service, store, args, pc, start_node_id, end_node_id, path_length,
           remaining_path_length, current_start_node, chunk_size,
           intermediate_end_node, outputs, gql_query, snapshot, queries, logs,
           response, fault, invocation, previous, running, parked >>

-----------------------------------------------------------------------------
(* Program constants *)

\* the per-query hop cap of the segmented service
MaxHop == 20

\* the upper hop bound of the path-length query
LengthCap == 100

(* Bounds of the model *)

\* length of a path that fits one query
ShortLen == 5

\* length of the long chains: more than two chunks
ChainLen == 47

\* length of the chain that is longer than the cap of the length query
FarLen == 101

\* the handler is invoked at most this many times on the same request
MaxInvocations == 2

-----------------------------------------------------------------------------
(* The graph stores *)

Edge(s, id, e) == [STARTNODEID |-> s, SEGMENTID |-> id, ENDNODEID |-> e]

\* SEGMENTO edges 0 -> 1 -> ... -> n
DirectedChain(n) == { Edge(i, 2 * i, i + 1) : i \in 0 .. (n - 1) }

\* the REVERSE_SEGMENTO edge of every edge of E
Reversed(E) == { Edge(e.ENDNODEID, e.SEGMENTID, e.STARTNODEID) : e \in E }

\* a second segment between nodes 1 and 2: two equal-length shortest paths
ParallelEdge == Edge(1, 3, 2)

\* a side branch of MaxHop edges leaving node 0 and ending in a dead end
DeadEndBranch ==
    { Edge(IF i = 0 THEN 0 ELSE ChainLen + i, 2 * (ChainLen + i) + 1, ChainLen + i + 1)
        : i \in 0 .. (MaxHop - 1) }

Stores ==
    [ directed |-> DirectedChain(ChainLen) \cup {ParallelEdge},
      twoway   |-> DirectedChain(ChainLen) \cup Reversed(DirectedChain(ChainLen)),
      branch   |-> DirectedChain(ChainLen) \cup DeadEndBranch,
      far      |-> DirectedChain(FarLen) ]

StoreNames == DOMAIN Stores

Edges == Stores[store]

-----------------------------------------------------------------------------
(* The store's bounded-hop shortest-path primitive *)

\* the nodes one edge after a node of F
Succ(E, F) == { e.ENDNODEID : e \in { x \in E : x.STARTNODEID \in F } }

\* the breadth-first search from a before its first level
Start(E, a) == [F |-> {a}, seen |-> {}, i |-> 0]

\* one more level: F holds the nodes at distance exactly i, seen those at 1..i
Step(E, st) ==
    LET N == Succ(E, st.F) \ st.seen
    IN  [F |-> N, seen |-> st.seen \cup N, i |-> st.i + 1]

\* the search stops at level k, when a target is met or when no node is left
Stopped(st, k, targets) ==
    st.i >= k \/ (st.i >= 1 /\ (st.F = {} \/ st.F \cap targets # {}))

RECURSIVE Advance(_, _, _, _, _)
\* at most n more levels; the next level is bound as a value, nx, so that it is
\* computed once however the operator is evaluated
Advance(E, st, n, k, targets) ==
    IF n = 0 \/ Stopped(st, k, targets)
    THEN st
    ELSE CHOOSE r \in { Advance(E, nx, n - 1, k, targets) : nx \in { Step(E, st) } } : TRUE

RECURSIVE Search(_, _, _, _)
\* the levels are walked ten at a time
Search(E, st, k, targets) ==
    IF Stopped(st, k, targets)
    THEN st
    ELSE CHOOSE r \in { Search(E, nx, k, targets) : nx \in { Advance(E, st, 10, k, targets) } } : TRUE

\* the nodes whose shortest walk of at least one edge from a has exactly k edges
Level(E, a, k) ==
    LET st == Search(E, Start(E, a), k, {})
    IN  IF st.i = k THEN st.F ELSE {}

\* ANY SHORTEST (a)-[s]->{1,cap}(b), COUNT(s): the hop count, 0 when no row
ShortestHopCount(E, a, b, cap) ==
    LET st == Search(E, Start(E, a), cap, {b})
    IN  IF b \in st.F THEN st.i ELSE 0

RECURSIVE PathsOfLength(_, _, _, _)
\* the shortest walks from a to b, given that their length is d >= 1
PathsOfLength(E, a, b, d) ==
    IF d = 1
    THEN { <<e>> : e \in { x \in E : x.STARTNODEID = a /\ x.ENDNODEID = b } }
    ELSE LET before == Level(E, a, d - 1)
             last   == { x \in E : x.ENDNODEID = b /\ x.STARTNODEID \in before }
         IN  UNION { { Append(p, e) : p \in PathsOfLength(E, a, e.STARTNODEID, d - 1) }
                       : e \in last }

\* p = ANY SHORTEST (a)-[s]->{1,hops}(b), FOR element IN EDGES(p): the row lists
\* the store may return (the empty list alone when no path is matched)
ShortestPathEdges(E, a, b, hops) ==
    UNION { IF d = 0 THEN { <<>> } ELSE PathsOfLength(E, a, b, d)
              : d \in { ShortestHopCount(E, a, b, hops) } }

\* ANY SHORTEST (a)-[s]->{1,hops}(dest) FILTER path_length = hops: the dest
\* of the rows the store may return first
BoundaryAtDistance(E, a, hops) == Level(E, a, hops)

-----------------------------------------------------------------------------
(* The request parameters *)

Digits == <<"0", "1", "2", "3", "4", "5", "6", "7", "8", "9">>

DigitChars == { Digits[i] : i \in 1 .. 10 }

DigitValue(c) == (CHOOSE i \in 1 .. 10 : Digits[i] = c) - 1

RECURSIVE Decimal(_)
\* the decimal text of n >= 0, a sequence of characters
Decimal(n) ==
    IF n < 10 THEN << Digits[n + 1] >>
    ELSE Append(Decimal(n \div 10), Digits[(n % 10) + 1])

\* a parameter that is absent from the query string
Missing == [given |-> FALSE, text |-> <<>>]

Given(t) == [given |-> TRUE, text |-> t]

\* the nodes the requests name
TestNodes == {0, ShortLen, MaxHop, 2 * MaxHop, ChainLen, FarLen}

RawParams ==
    { Missing, Given(<<>>), Given(<<"x">>), Given(<<"1", "x">>), Given(<<" ">>),
      Given(<<"-", "1">>) }
    \cup { Given(Decimal(n)) : n \in TestNodes }

\* Python truthiness of request.args.get(name)
Truthy(p) == p.given /\ p.text # <<>>

RECURSIVE StripLeft(_)
StripLeft(t) == IF t # <<>> /\ Head(t) = " " THEN StripLeft(Tail(t)) ELSE t

RECURSIVE StripRight(_)
StripRight(t) ==
    IF t # <<>> /\ t[Len(t)] = " " THEN StripRight(SubSeq(t, 1, Len(t) - 1)) ELSE t

RECURSIVE DigitsValue(_)
DigitsValue(t) ==
    IF t = <<>> THEN 0
    ELSE 10 * DigitsValue(SubSeq(t, 1, Len(t) - 1)) + DigitValue(t[Len(t)])

\* a parser that skips the characters that are no digits
ParseIntLenient(text) ==
    LET body == SelectSeq(text, LAMBDA c : c \in DigitChars)
    IN  IF body = <<>> THEN <<>> ELSE << DigitsValue(body) >>

\* int(text): <<n>> when text is an integer literal, <<>> for ValueError
ParseInt(text) ==
    LET t      == StripRight(StripLeft(text))
        signed == t # <<>> /\ Head(t) \in {"-", "+"}
        body   == IF signed THEN Tail(t) ELSE t
    IN  IF body = <<>> \/ \E i \in 1 .. Len(body) : body[i] \notin DigitChars
        THEN <<>>
        ELSE IF signed /\ Head(t) = "-" THEN << 0 - DigitsValue(body) >>
        ELSE << DigitsValue(body) >>

-----------------------------------------------------------------------------
(* Responses and log records *)

Respond(status, body) == << [status |-> status, body |-> body] >>

ErrorBody(text, detail) == [type |-> "error", error |-> text, detail |-> detail]

NoPathBody ==
    [type |-> "message", message |-> "No path found between the specified nodes.",
     path_length |-> 0]

ListBody(rows) == [type |-> "list", items |-> rows]

LogText(text, detail, severity) ==
    [call |-> "log_text", severity |-> severity, text |-> text, detail |-> detail]

LogStruct(query, rows) ==
    [call |-> "log_struct", severity |-> "INFO", query |-> query,
     result_count |-> Len(rows), results |-> rows]

\* the messages a store-level fault may carry
FaultMessages == {"DeadlineExceeded", "Unavailable"}

Query(kind, a, b, hops) == [kind |-> kind, start_node |-> a, end_node |-> b, hops |-> hops]

-----------------------------------------------------------------------------
Init ==
    /\ service \in {"segmented", "single"}
    /\ store \in StoreNames
    /\ args \in [start_node : RawParams, end_node : RawParams]
    /\ pc = "receive"
    /\ start_node_id = 0
    /\ end_node_id = 0
    /\ path_length = 0
    /\ remaining_path_length = 0
    /\ current_start_node = 0
    /\ chunk_size = 0
    /\ intermediate_end_node = <<>>
    /\ outputs = <<>>
    /\ gql_query = <<>>
    /\ snapshot = [open |-> 0, opened |-> 0]
    /\ queries = <<>>
    /\ logs = <<>>
    /\ response = <<>>
    /\ fault = <<>>
    /\ invocation = 1
    /\ previous = <<>>
    /\ running = 1
    /\ parked = <<>>

-----------------------------------------------------------------------------
(* Steps shared by the return paths of the handler *)

\* the handler returns: one logger call, then the response
Return(entry, status, body) ==
    /\ logs' = Append(logs, entry)
    /\ response' = Respond(status, body)
    /\ pc' = "done"

\* with database.snapshot() as snapshot: the block is entered
OpenSnapshot(held) == [open |-> held.open + 1, opened |-> held.opened + 1]

\* a block that is left without releasing its snapshot
CloseSnapshotLeaking(held) == held

\* the block is left, normally or by an exception: the snapshot is released
CloseSnapshot(held) == [held EXCEPT !.open = @ - 1]

\* the with-block of a chunk's segment query is entered (lines 104-118); held
\* are the snapshot blocks when it is entered
IssueSegmentQuery(dest, held) ==
    LET q == Query("segment", current_start_node, <<dest>>, chunk_size')
    IN  /\ gql_query' = Append(gql_query, q)
        /\ queries' = Append(queries, q)
        /\ snapshot' = OpenSnapshot(held)
        /\ pc' = "await_segment"

\* the query whose snapshot block is open
InFlight == queries[Len(queries)]

\* an except clause that returns the edges collected before the fault
RaisedPartial(m) ==
    Return(LogText("An error occurred: ", <<m>>, "ERROR"), 200, ListBody(outputs))

\* except Exception as e: the fault is logged and returned, nothing else
Raised(m) ==
    Return(LogText("An error occurred: ", <<m>>, "ERROR"),
           500, ErrorBody("An error occurred: ", <<m>>))

-----------------------------------------------------------------------------
(* run_graph_query, both services: parameter validation *)

Validate ==
    /\ pc = "receive"
    /\ IF ~Truthy(args.start_node) \/ ~Truthy(args.end_node)
       THEN /\ Return(LogText("Missing 'start_node' or 'end_node' parameter.", <<>>, "ERROR"),
                      400,
                      ErrorBody("Missing 'start_node' or 'end_node' parameter.", <<>>))
            /\ UNCHANGED << start_node_id, end_node_id >>
       ELSE IF ParseInt(args.start_node.text) = <<>> \/ ParseInt(args.end_node.text) = <<>>
       THEN /\ Return(LogText("Invalid 'start_node' or 'end_node' parameter. Must be an integer.",
                              <<>>, "ERROR"),
                      400,
                      ErrorBody("Invalid 'start_node' or 'end_node' parameter. Must be an integer.",
                                <<>>))
            /\ UNCHANGED << start_node_id, end_node_id >>
       ELSE /\ start_node_id' = ParseInt(args.start_node.text)[1]
            /\ end_node_id' = ParseInt(args.end_node.text)[1]
            /\ pc' = "validated"
            /\ UNCHANGED << logs, response >>
    /\ UNCHANGED << service, store, args, path_length, remaining_path_length,
                    current_start_node, chunk_size, intermediate_end_node, outputs,
                    gql_query, snapshot, queries, fault, invocation, previous, running, parked >>

-----------------------------------------------------------------------------
(* run_graph_query of spanner_graph_run_DQ.py *)

\* the path-length query is built and its snapshot block entered
IssueLengthQuery ==
    /\ pc = "validated"
    /\ service = "segmented"
    /\ path_length' = 0
    /\ snapshot' = OpenSnapshot(snapshot)
    /\ queries' = Append(queries, Query("length", start_node_id, <<end_node_id>>, LengthCap))
    /\ pc' = "await_length"
    /\ UNCHANGED << service, store, args, start_node_id, end_node_id,
                    remaining_path_length, current_start_node, chunk_size,
                    intermediate_end_node, outputs, gql_query, logs, response,
                    fault, invocation, previous, running, parked >>

\* a no-path test that misses the sentinel
IsNoPathNegative(len) == len < 0

\* path_length == 0 after the length query: no row came back
IsNoPath(len) == len = 0

\* the path-length query answers; the no-path return or the choice of branch
LengthAnswer ==
    /\ pc = "await_length"
    /\ snapshot' = CloseSnapshot(snapshot)
    /\ path_length' = ShortestHopCount(Edges, InFlight.start_node, InFlight.end_node[1],
                                        InFlight.hops)
    /\ IF IsNoPath(path_length')
       THEN /\ Return(LogText("No path found between the specified nodes.", <<>>, "WARNING"),
                      200, NoPathBody)
            /\ UNCHANGED << outputs, gql_query, remaining_path_length, current_start_node >>
       ELSE /\ outputs' = <<>>
            /\ gql_query' = <<>>
            /\ IF path_length' > MaxHop
               THEN /\ remaining_path_length' = path_length'
                    /\ current_start_node' = start_node_id
                    /\ pc' = "loop_head"
               ELSE /\ pc' = "single"
                    /\ UNCHANGED << remaining_path_length, current_start_node >>
            /\ UNCHANGED << logs, response >>
    /\ UNCHANGED << service, store, args, start_node_id, end_node_id, chunk_size,
                    intermediate_end_node, queries, fault, invocation, previous, running, parked >>

Min(a, b) == IF a < b THEN a ELSE b

\* a chunk size that ignores what remains
ChunkSizeFixed(remaining) == MaxHop

\* the size of the chunk the loop is about to fetch
ChunkSize(remaining) == Min(MaxHop, remaining)

\* a final-chunk test that misses a chunk of exactly MaxHop edges
IsFinalChunkStrict(remaining) == remaining < MaxHop

\* the final chunk ends at the request's end node
IsFinalChunk(remaining) == remaining <= MaxHop

\* one iteration of the chunk loop starts: the final chunk goes straight to its
\* segment query, any other chunk to its boundary-discovery query
ChunkStart ==
    /\ pc = "loop_head"
    /\ remaining_path_length > 0
    /\ chunk_size' = ChunkSize(remaining_path_length)
    /\ IF IsFinalChunk(remaining_path_length)
       THEN /\ intermediate_end_node' = <<end_node_id>>
            /\ IssueSegmentQuery(end_node_id, snapshot)
       ELSE /\ intermediate_end_node' = <<>>
            /\ queries' = Append(queries, Query("boundary", current_start_node, <<>>, chunk_size'))
            /\ snapshot' = OpenSnapshot(snapshot)
            /\ pc' = "await_boundary"
            /\ UNCHANGED gql_query
    /\ UNCHANGED << service, store, args, start_node_id, end_node_id, path_length,
                    remaining_path_length, current_start_node, outputs, logs, response,
                    fault, invocation, previous, running, parked >>

\* a missing boundary that ends the request with the edges collected so far
BoundaryNotFoundPartial ==
    Return(LogStruct(gql_query, outputs), 200, ListBody(outputs))

\* intermediate_end_node is None: the request is aborted
BoundaryNotFound ==
    Return(LogText("Could not find an intermediate node from",
                   <<current_start_node, chunk_size>>, "ERROR"),
           500,
           ErrorBody("Could not find an intermediate node from",
                     <<current_start_node, chunk_size>>))

\* the boundary-discovery query answers: its first row, if any, names the chunk's end
BoundaryAnswer ==
    /\ pc = "await_boundary"
    /\ LET rows == BoundaryAtDistance(Edges, InFlight.start_node, InFlight.hops)
       IN  IF rows = {}
           THEN /\ BoundaryNotFound
                /\ snapshot' = CloseSnapshot(snapshot)
                /\ UNCHANGED << intermediate_end_node, gql_query, queries, chunk_size >>
           ELSE \E n \in rows :
                    /\ intermediate_end_node' = <<n>>
                    /\ chunk_size' = chunk_size
                    /\ IssueSegmentQuery(n, CloseSnapshot(snapshot))
                    /\ UNCHANGED << logs, response >>
    /\ UNCHANGED << service, store, args, start_node_id, end_node_id, path_length,
                    remaining_path_length, current_start_node, outputs, fault,
                    invocation, previous, running, parked >>

\* a loop variable that loses one edge more than the chunk fetched
RemainingAfterOffByOne(remaining, chunk) == remaining - chunk - 1

\* the edges still to fetch once a chunk has been fetched
RemainingAfter(remaining, chunk) == remaining - chunk

\* the rows of a chunk's segment query are appended; the loop variables advance
SegmentAnswer ==
    /\ pc = "await_segment"
    /\ \E rows \in ShortestPathEdges(Edges, InFlight.start_node, InFlight.end_node[1],
                                     InFlight.hops) :
           outputs' = outputs \o rows
    /\ snapshot' = CloseSnapshot(snapshot)
    /\ remaining_path_length' = RemainingAfter(remaining_path_length, chunk_size)
    /\ current_start_node' = intermediate_end_node[1]
    /\ pc' = "loop_head"
    /\ UNCHANGED << service, store, args, start_node_id, end_node_id, path_length,
                    chunk_size, intermediate_end_node, gql_query, queries, logs,
                    response, fault, invocation, previous, running, parked >>

\* an upper hop bound that is one short
SingleQueryHopsOffByOne(len) == len - 1

\* an upper hop bound that stays below the hop limit
SingleQueryHopsBelowLimit(len) == Min(len, MaxHop - 1)

\* the upper hop bound of the single query: the resolved length
SingleQueryHops(len) == len

\* a path of at most MaxHop edges: the single query with the resolved length
IssueSingleQuery ==
    /\ pc = "single"
    /\ LET q == Query("segment", start_node_id, <<end_node_id>>, SingleQueryHops(path_length))
       IN  /\ gql_query' = <<q>>
           /\ queries' = Append(queries, q)
    /\ snapshot' = OpenSnapshot(snapshot)
    /\ pc' = "await_single"
    /\ UNCHANGED << service, store, args, start_node_id, end_node_id, path_length,
                    remaining_path_length, current_start_node, chunk_size,
                    intermediate_end_node, outputs, logs, response, fault,
                    invocation, previous, running, parked >>

SingleAnswer ==
    /\ pc = "await_single"
    /\ \E rows \in ShortestPathEdges(Edges, InFlight.start_node, InFlight.end_node[1],
                                     InFlight.hops) :
           outputs' = outputs \o rows
    /\ snapshot' = CloseSnapshot(snapshot)
    /\ pc' = "log"
    /\ UNCHANGED << service, store, args, start_node_id, end_node_id, path_length,
                    remaining_path_length, current_start_node, chunk_size,
                    intermediate_end_node, gql_query, queries, logs, response,
                    fault, invocation, previous, running, parked >>

\* the chunk loop is left, or the single query is done: the structured log
\* record and the edge list
LogAndReturn ==
    /\ \/ pc = "loop_head" /\ remaining_path_length <= 0
       \/ pc = "log" /\ service = "segmented"
    /\ Return(LogStruct(gql_query, outputs), 200, ListBody(outputs))
    /\ UNCHANGED << service, store, args, start_node_id, end_node_id, path_length,
                    remaining_path_length, current_start_node, chunk_size,
                    intermediate_end_node, outputs, gql_query, snapshot, queries,
                    fault, invocation, previous, running, parked >>

\* a store query raises inside its snapshot block: the except clause
StoreFault ==
    /\ pc \in {"await_length", "await_boundary", "await_segment", "await_single"}
    /\ \E m \in FaultMessages :
           /\ Raised(m)
           /\ fault' = <<m>>
    /\ snapshot' = CloseSnapshot(snapshot)
    /\ UNCHANGED << service, store, args, start_node_id, end_node_id, path_length,
                    remaining_path_length, current_start_node, chunk_size,
                    intermediate_end_node, outputs, gql_query, queries, invocation,
                    previous, running, parked >>

-----------------------------------------------------------------------------
(* run_graph_query of spanner_graph_run.py *)

SimpleIssueQuery ==
    /\ pc = "validated"
    /\ service = "single"
    /\ LET q == Query("segment", start_node_id, <<end_node_id>>, MaxHop)
       IN  /\ gql_query' = <<q>>
           /\ queries' = Append(queries, q)
    /\ outputs' = <<>>
    /\ snapshot' = OpenSnapshot(snapshot)
    /\ pc' = "await_simple"
    /\ UNCHANGED << service, store, args, start_node_id, end_node_id, path_length,
                    remaining_path_length, current_start_node, chunk_size,
                    intermediate_end_node, logs, response, fault, invocation,
                    previous, running, parked >>

SimpleAnswer ==
    /\ pc = "await_simple"
    /\ \E rows \in ShortestPathEdges(Edges, InFlight.start_node, InFlight.end_node[1],
                                     InFlight.hops) :
           outputs' = outputs \o rows
    /\ snapshot' = CloseSnapshot(snapshot)
    /\ pc' = "log"
    /\ UNCHANGED << service, store, args, start_node_id, end_node_id, path_length,
                    remaining_path_length, current_start_node, chunk_size,
                    intermediate_end_node, gql_query, queries, logs, response,
                    fault, invocation, previous, running, parked >>

SimpleLogAndReturn ==
    /\ pc = "log"
    /\ service = "single"
    /\ Return(LogStruct(gql_query, outputs), 200, ListBody(outputs))
    /\ UNCHANGED << service, store, args, start_node_id, end_node_id, path_length,
                    remaining_path_length, current_start_node, chunk_size,
                    intermediate_end_node, outputs, gql_query, snapshot, queries,
                    fault, invocation, previous, running, parked >>

SimpleStoreFault ==
    /\ pc = "await_simple"
    /\ \E m \in FaultMessages :
           /\ Raised(m)
           /\ fault' = <<m>>
    /\ snapshot' = CloseSnapshot(snapshot)
    /\ UNCHANGED << service, store, args, start_node_id, end_node_id, path_length,
                    remaining_path_length, current_start_node, chunk_size,
                    intermediate_end_node, outputs, gql_query, queries, invocation,
                    previous, running, parked >>

-----------------------------------------------------------------------------
(* The route: the same request is served again against the unchanged store *)

Outcome == [response |-> response[1], fault |-> fault, queries |-> queries]

Reinvoke ==
    /\ pc = "done"
    /\ invocation < MaxInvocations
    /\ previous' = << Outcome >>
    /\ invocation' = invocation + 1
    /\ pc' = "receive"
    /\ start_node_id' = 0
    /\ end_node_id' = 0
    /\ path_length' = 0
    /\ remaining_path_length' = 0
    /\ current_start_node' = 0
    /\ chunk_size' = 0
    /\ intermediate_end_node' = <<>>
    /\ outputs' = <<>>
    /\ gql_query' = <<>>
    /\ snapshot' = [open |-> snapshot.open, opened |-> 0]
    /\ queries' = <<>>
    /\ logs' = <<>>
    /\ response' = <<>>
    /\ fault' = <<>>
    /\ UNCHANGED << service, store, args, running, parked >>

-----------------------------------------------------------------------------
Next ==
    \/ Validate
    \/ IssueLengthQuery
    \/ LengthAnswer
    \/ ChunkStart
    \/ BoundaryAnswer
    \/ SegmentAnswer
    \/ IssueSingleQuery
    \/ SingleAnswer
    \/ LogAndReturn
    \/ StoreFault
    \/ SimpleIssueQuery
    \/ SimpleAnswer
    \/ SimpleLogAndReturn
    \/ SimpleStoreFault
    \/ Reinvoke

Spec == Init /\ [][Next]_vars

-----------------------------------------------------------------------------
(* The logging collaborator fails *)

\* a logger call that raised m
LogRaised(call, m) == [call |-> call, raised |-> m]

\* Flask's answer to an exception that leaves the handler
InternalServerError == Respond(500, ErrorBody("Internal Server Error", <<>>))

\* logger.log_struct raises after the edges were fetched: the call is inside
\* the try block, so the except clause logs the failure (a call that may raise
\* in turn and leave the handler) and returns status 500
LogStructFault ==
    /\ \/ pc = "loop_head" /\ remaining_path_length <= 0
       \/ pc = "log"
    /\ \E m \in FaultMessages :
          \/ /\ logs' = logs \o << LogRaised("log_struct", m),
                                   LogText("An error occurred: ", <<m>>, "ERROR") >>
             /\ response' = Respond(500, ErrorBody("An error occurred: ", <<m>>))
          \/ /\ logs' = logs \o << LogRaised("log_struct", m), LogRaised("log_text", m) >>
             /\ response' = InternalServerError
    /\ pc' = "done"
    /\ UNCHANGED << service, store, args, start_node_id, end_node_id, path_length,
                    remaining_path_length, current_start_node, chunk_size,
                    intermediate_end_node, outputs, gql_query, snapshot, queries,
                    fault, invocation, previous, running, parked >>

NextLog == Next \/ LogStructFault

\* the requests of Spec with a logger that may raise
SpecLog == Init /\ [][NextLog]_vars

-----------------------------------------------------------------------------
(* Another client writes to the store *)

\* the graphs the other client's transaction switches between: it removes the
\* segments after node ChainLen (and adds the parallel one), or puts them back
WrittenStores == {"far", "directed"}

\* a transaction of another client commits; every database.snapshot() entered
\* afterwards reads the new graph
StoreWrite ==
    /\ store \in WrittenStores
    /\ store' \in WrittenStores \ {store}
    /\ UNCHANGED << service, args, pc, start_node_id, end_node_id, path_length,
                    remaining_path_length, current_start_node, chunk_size,
                    intermediate_end_node, outputs, gql_query, snapshot, queries,
                    logs, response, fault, invocation, previous, running, parked >>

NextWrite == Next \/ StoreWrite

\* the requests of Spec against a store that another client modifies
SpecWrite == Init /\ [][NextWrite]_vars

\* one request of each kind: long, long from a chunk boundary, unreachable, a
\* whole number of chunks, beyond the length cap, short, missing, not an integer
FairArgs ==
    { [start_node |-> Given(Decimal(p[1])), end_node |-> Given(Decimal(p[2]))]
        : p \in { <<0, ChainLen>>, <<MaxHop, ChainLen>>, <<ShortLen, 0>>,
                  <<0, 2 * MaxHop>>, <<0, FarLen>>, <<0, ShortLen>> } }
    \cup { [start_node |-> Missing, end_node |-> Given(Decimal(0))],
           [start_node |-> Given(<<"x">>), end_node |-> Given(Decimal(0))] }

InitFair == Init /\ args \in FairArgs

\* the handler runs on: a step that can be taken is taken, and a store query
\* that was issued answers or raises
FairSpec == InitFair /\ [][Next]_vars /\ WF_vars(Next)

-----------------------------------------------------------------------------
(* Two requests served concurrently *)

\* the locals of the running request: its frame
Frame ==
    [ id |-> running,
      args |-> args,
      pc |-> pc,
      start_node_id |-> start_node_id,
      end_node_id |-> end_node_id,
      path_length |-> path_length,
      remaining_path_length |-> remaining_path_length,
      current_start_node |-> current_start_node,
      chunk_size |-> chunk_size,
      intermediate_end_node |-> intermediate_end_node,
      outputs |-> outputs,
      gql_query |-> gql_query,
      snapshot |-> snapshot,
      queries |-> queries,
      logs |-> logs,
      response |-> response,
      fault |-> fault,
      invocation |-> invocation,
      previous |-> previous ]

\* the frame of a request that has just arrived
NewFrame(a, id) ==
    [ id |-> id, args |-> a, pc |-> "receive", start_node_id |-> 0, end_node_id |-> 0,
      path_length |-> 0, remaining_path_length |-> 0, current_start_node |-> 0,
      chunk_size |-> 0, intermediate_end_node |-> <<>>, outputs |-> <<>>,
      gql_query |-> <<>>, snapshot |-> [open |-> 0, opened |-> 0], queries |-> <<>>,
      logs |-> <<>>, response |-> <<>>, fault |-> <<>>, invocation |-> 1,
      previous |-> <<>> ]

\* a resumption in which outputs is one list shared by the requests
ResumeSharedOutputs(f) ==
    /\ running' = f.id
    /\ args' = f.args
    /\ pc' = f.pc
    /\ start_node_id' = f.start_node_id
    /\ end_node_id' = f.end_node_id
    /\ path_length' = f.path_length
    /\ remaining_path_length' = f.remaining_path_length
    /\ current_start_node' = f.current_start_node
    /\ chunk_size' = f.chunk_size
    /\ intermediate_end_node' = f.intermediate_end_node
    /\ outputs' = outputs
    /\ gql_query' = f.gql_query
    /\ snapshot' = f.snapshot
    /\ queries' = f.queries
    /\ logs' = f.logs
    /\ response' = f.response
    /\ fault' = f.fault
    /\ invocation' = f.invocation
    /\ previous' = f.previous

\* the thread of frame f runs again: its locals are the ones it left
Resume(f) ==
    /\ running' = f.id
    /\ args' = f.args
    /\ pc' = f.pc
    /\ start_node_id' = f.start_node_id
    /\ end_node_id' = f.end_node_id
    /\ path_length' = f.path_length
    /\ remaining_path_length' = f.remaining_path_length
    /\ current_start_node' = f.current_start_node
    /\ chunk_size' = f.chunk_size
    /\ intermediate_end_node' = f.intermediate_end_node
    /\ outputs' = f.outputs
    /\ gql_query' = f.gql_query
    /\ snapshot' = f.snapshot
    /\ queries' = f.queries
    /\ logs' = f.logs
    /\ response' = f.response
    /\ fault' = f.fault
    /\ invocation' = f.invocation
    /\ previous' = f.previous

\* the requests served concurrently
ConcurrentArgs ==
    { [start_node |-> Given(Decimal(p[1])), end_node |-> Given(Decimal(p[2]))]
        : p \in { <<0, ChainLen>>, <<MaxHop, ChainLen>>, <<ShortLen, 0>> } }

\* a second request arrives while the first is being served
Arrive ==
    /\ parked = <<>>
    /\ \E a \in ConcurrentArgs : parked' = << NewFrame(a, 3 - running) >>
    /\ UNCHANGED << service, store, args, pc, start_node_id, end_node_id, path_length,
                    remaining_path_length, current_start_node, chunk_size,
                    intermediate_end_node, outputs, gql_query, snapshot, queries,
                    logs, response, fault, invocation, previous, running >>

\* the server switches from the thread of one request to the other's
Switch ==
    /\ parked # <<>>
    /\ parked' = << Frame >>
    /\ Resume(parked[1])
    /\ UNCHANGED << service, store >>

InitConcurrent == Init /\ args \in ConcurrentArgs

NextConcurrent ==
    \/ Validate
    \/ IssueLengthQuery
    \/ LengthAnswer
    \/ ChunkStart
    \/ BoundaryAnswer
    \/ SegmentAnswer
    \/ IssueSingleQuery
    \/ SingleAnswer
    \/ LogAndReturn
    \/ StoreFault
    \/ SimpleIssueQuery
    \/ SimpleAnswer
    \/ SimpleLogAndReturn
    \/ SimpleStoreFault
    \/ Arrive
    \/ Switch

\* two requests, their steps interleaved in any order
SpecConcurrent == InitConcurrent /\ [][NextConcurrent]_vars

-----------------------------------------------------------------------------
(* The responses of a request that is served alone *)

OkList(rows) == [status |-> 200, body |-> ListBody(rows)]

RECURSIVE Walk(_, _, _, _, _)
\* the chunk loop from node cur with rem edges to go and the rows acc collected
Walk(E, cur, e, rem, acc) ==
    IF rem <= 0 THEN { OkList(acc) }
    ELSE LET c == ChunkSize(rem)
         IN  IF IsFinalChunk(rem)
             THEN UNION { Walk(E, e, e, RemainingAfter(rem, c), acc \o rows)
                            : rows \in ShortestPathEdges(E, cur, e, c) }
             ELSE LET found == BoundaryAtDistance(E, cur, c)
                  IN  IF found = {}
                      THEN { [status |-> 500,
                              body |-> ErrorBody("Could not find an intermediate node from",
                                                 <<cur, c>>)] }
                      ELSE UNION { UNION { Walk(E, n, e, RemainingAfter(rem, c), acc \o rows)
                                             : rows \in ShortestPathEdges(E, cur, n, c) }
                                     : n \in found }

\* the responses of the segmented service when no store query raises
SegmentedResponses(E, s, e) ==
    LET len == ShortestHopCount(E, s, e, LengthCap)
    IN  IF IsNoPath(len) THEN { [status |-> 200, body |-> NoPathBody] }
        ELSE IF len > MaxHop THEN Walk(E, s, e, len, <<>>)
        ELSE { OkList(rows) : rows \in ShortestPathEdges(E, s, e, SingleQueryHops(len)) }

\* the responses of the single-query service when its store query does not raise
SimpleResponses(E, s, e) ==
    { OkList(rows) : rows \in ShortestPathEdges(E, s, e, MaxHop) }

\* the responses to a store query that raises
FaultResponses ==
    { [status |-> 500, body |-> ErrorBody("An error occurred: ", <<m>>)] : m \in FaultMessages }

\* every response the service svc may give to the parameters a over the graph E
AloneResponses(svc, E, a) ==
    IF ~Truthy(a.start_node) \/ ~Truthy(a.end_node)
    THEN { [status |-> 400,
            body |-> ErrorBody("Missing 'start_node' or 'end_node' parameter.", <<>>)] }
    ELSE IF ParseInt(a.start_node.text) = <<>> \/ ParseInt(a.end_node.text) = <<>>
    THEN { [status |-> 400,
            body |-> ErrorBody("Invalid 'start_node' or 'end_node' parameter. Must be an integer.",
                               <<>>)] }
    ELSE LET s == ParseInt(a.start_node.text)[1]
             e == ParseInt(a.end_node.text)[1]
         IN  FaultResponses \cup
             (IF svc = "single" THEN SimpleResponses(E, s, e)
              ELSE SegmentedResponses(E, s, e))

-----------------------------------------------------------------------------
(* Vocabulary of the properties *)

Done == pc = "done"

Segmented == service = "segmented"

Resp == response[1]

\* the response is the JSON edge list with status 200
ReturnsList == Resp.status = 200 /\ Resp.body.type = "list"

\* the response is the no-path message with status 200
ReturnsNoPath == Resp.status = 200 /\ Resp.body = NoPathBody

\* the response carries an error and no edge
ReturnsError(status) == Resp.status = status /\ Resp.body.type = "error"

\* length of the shortest walk of at least one edge in the store, whatever its
\* length; 0 when there is none
TrueLength ==
    ShortestHopCount(Edges, start_node_id, end_node_id, Cardinality(Edges) + 1)

\* the contiguity invariant of a path
Contiguous(p) ==
    \A i \in 1 .. (Len(p) - 1) : p[i].ENDNODEID = p[i + 1].STARTNODEID

\* p is a path of n edges of the store from a to b
IsPath(p, n, a, b) ==
    /\ Len(p) = n
    /\ n >= 1
    /\ \A i \in 1 .. n : p[i] \in Edges
    /\ Contiguous(p)
    /\ p[1].STARTNODEID = a
    /\ p[n].ENDNODEID = b

CeilDiv(a, b) == (a + b - 1) \div b

Count(kind) == Cardinality({ i \in 1 .. Len(queries) : queries[i].kind = kind })

Kinds == [ i \in 1 .. Len(queries) |-> queries[i].kind ]

\* the raw parameters that are integer literals
IntegerParams == { Given(Decimal(n)) : n \in TestNodes } \cup { Given(<<"-", "1">>) }

\* the integer an integer literal of IntegerParams denotes
Denotes(p, n) ==
    \/ p.text = <<"-", "1">> /\ n = 0 - 1
    \/ n >= 0 /\ p.text = Decimal(n)

-----------------------------------------------------------------------------
(* C1: for every store and every reachable pair whose shortest length L is
   more than MaxHop, whatever the store answers to the boundary and segment
   queries, the segmented service returns exactly L edges, each ending where
   the next starts, the last ending at the end node.  Stated for the lengths
   the length query can resolve (L <= LengthCap); longer paths are C5's. *)
C1_LongPathAssembled ==
    (Done /\ Segmented /\ fault = <<>>
        /\ TrueLength > MaxHop /\ TrueLength <= LengthCap)
    => (ReturnsList /\ Len(Resp.body.items) = TrueLength
        /\ Contiguous(Resp.body.items)
        /\ Resp.body.items[Len(Resp.body.items)].ENDNODEID = end_node_id)

(* C2: for every reachable pair with L > MaxHop a run never stops early: at
   its end it has made exactly ceil(L/MaxHop) segment queries and exactly
   ceil(L/MaxHop) - 1 boundary-discovery queries. *)
C2_QueryCounts ==
    (Done /\ Segmented /\ fault = <<>>
        /\ TrueLength > MaxHop /\ TrueLength <= LengthCap)
    => (/\ Count("segment") = CeilDiv(TrueLength, MaxHop)
        /\ Count("boundary") = CeilDiv(TrueLength, MaxHop) - 1)

(* C3: for every reachable pair with 1 <= L <= MaxHop the segmented service
   issues one path-length query, no boundary-discovery query and one
   edge query, in this order, and returns a path of exactly L edges from start
   to end. *)
C3_ShortPathSingleQuery ==
    (Done /\ Segmented /\ fault = <<>> /\ queries # <<>>
        /\ TrueLength >= 1 /\ TrueLength <= MaxHop)
    => (/\ Kinds = <<"length", "segment">>
        /\ ReturnsList
        /\ IsPath(Resp.body.items, TrueLength, start_node_id, end_node_id))

C3_Witness ==
    /\ Done /\ Segmented /\ fault = <<>> /\ queries # <<>>
    /\ TrueLength = MaxHop
    /\ ReturnsList
    /\ Len(Resp.body.items) = MaxHop

(* C4: for every pair with no path between them, when the path-length query
   succeeds the segmented service returns status 200 with the no-path message
   and path_length 0, no edge and no error, and issues no other query. *)
C4_NoPathIsSuccess ==
    (Done /\ Segmented /\ fault = <<>> /\ queries # <<>> /\ TrueLength = 0)
    => (/\ ReturnsNoPath
        /\ Resp.body.path_length = 0
        /\ Kinds = <<"length">>)

C4_Witness ==
    /\ Done /\ Segmented /\ fault = <<>> /\ queries # <<>>
    /\ TrueLength = 0
    /\ start_node_id # end_node_id
    /\ ReturnsNoPath

(* C5: the no-path result (path_length = 0) is returned only when the store
   holds no path of any length from start to end, also when the shortest
   path is longer than the cap of the length query. *)
C5_NoPathOnlyWhenUnreachable ==
    (Done /\ Segmented /\ fault = <<>> /\ queries # <<>> /\ ReturnsNoPath)
    => TrueLength = 0

(* C6: when the boundary-discovery query of a chunk returns no row, the
   segmented service returns status 500 with an error, none of the edges
   collected so far, and issues no further query. *)
C6_BoundaryNotFoundAborts ==
    [][(/\ pc = "await_boundary"
        /\ BoundaryAtDistance(Edges, current_start_node, chunk_size) = {}
        /\ fault' = <<>>)
       => (/\ pc' = "done"
           /\ response' # <<>>
           /\ response'[1].status = 500
           /\ response'[1].body.type = "error"
           /\ queries' = queries
           /\ snapshot'.open = 0)]_vars

C6_Witness ==
    /\ Done /\ Segmented /\ fault = <<>>
    /\ queries # <<>> /\ InFlight.kind = "boundary"
    /\ outputs # <<>>
    /\ ReturnsError(500)

(* C7: an assembled edge sequence that is not a contiguous path from start to
   end (the next segment does not start where the last edge ends, or a
   segment of positive hop count came back empty) is never returned as a
   success by the segmented service. *)
C7_NoBrokenPathReturned ==
    (Done /\ Segmented /\ ReturnsList)
    => IsPath(Resp.body.items, Len(Resp.body.items), start_node_id, end_node_id)

(* C8: when a store query raises, at any step, the segmented service issues
   no further store query and returns status 500 with the fault message and
   none of the edges collected before. *)
C8_StoreFaultAborts ==
    [][(Segmented /\ fault = <<>> /\ fault' # <<>>)
       => (/\ pc' = "done"
           /\ response' = Respond(500, ErrorBody("An error occurred: ", fault'))
           /\ queries' = queries
           /\ snapshot'.open = 0)]_vars

C8_Witness ==
    /\ Done /\ Segmented /\ fault # <<>>
    /\ InFlight.kind = "segment"
    /\ outputs # <<>>
    /\ ReturnsError(500)

(* C9: a request whose start_node or end_node is missing, empty or not an
   integer is answered 400 before any snapshot is opened or query issued;
   every run that opens a snapshot or issues a query has two integer
   endpoints, the integers its parameters denote. *)
C9_InvalidInputRejected ==
    /\ (queries # <<>> \/ snapshot.opened > 0)
        => (/\ args.start_node \in IntegerParams
            /\ args.end_node \in IntegerParams
            /\ Denotes(args.start_node, start_node_id)
            /\ Denotes(args.end_node, end_node_id))
    /\ (Done /\ (args.start_node \notin IntegerParams \/ args.end_node \notin IntegerParams))
        => (ReturnsError(400) /\ queries = <<>> /\ snapshot.opened = 0)

C9_Witness ==
    /\ Done
    /\ args.start_node \in IntegerParams
    /\ args.end_node = Given(<<"1", "x">>)
    /\ ReturnsError(400)

(* C10: two invocations with the same start and end against the unchanged
   store have the same kind of outcome and return edge sequences of the same
   length, whatever the store picks in each. *)
C10_Idempotent ==
    (Done /\ Segmented /\ previous # <<>> /\ fault = <<>> /\ previous[1].fault = <<>>)
    => (/\ Resp.status = previous[1].response.status
        /\ Resp.body.type = previous[1].response.body.type
        /\ Resp.body.type = "list"
            => Len(Resp.body.items) = Len(previous[1].response.body.items))

(* C11: a failure of the logger never changes the outcome: when the edges
   were fetched and the structured-log call was made, the response is the
   edge list with status 200, whether or not the call raised. *)
C11_LogFailureHarmless ==
    (Done /\ fault = <<>> /\ \E i \in 1 .. Len(logs) : logs[i].call = "log_struct")
    => (ReturnsList /\ Resp.body.items = outputs)

\* the segment queries issued so far, in order
SegmentQueries == SelectSeq(queries, LAMBDA q : q.kind = "segment")

RECURSIVE SumHops(_)
SumHops(qs) == IF qs = <<>> THEN 0 ELSE Head(qs).hops + SumHops(Tail(qs))

\* the number of chunks of a path of the resolved length
NumChunks == CeilDiv(path_length, MaxHop)

(* C12: for a resolved length L > MaxHop the chunk sizes of the successive
   iterations are MaxHop for every chunk but the last and
   L - MaxHop * (ceil(L/MaxHop) - 1) for the last, every size is in 1..MaxHop,
   also when MaxHop divides L, and the sizes of a completed run sum to L. *)
C12_ChunkSizes ==
    (Segmented /\ path_length > MaxHop)
    => (/\ Len(SegmentQueries) <= NumChunks
        /\ \A i \in 1 .. Len(SegmentQueries) :
              /\ SegmentQueries[i].hops =
                    (IF i < NumChunks THEN MaxHop
                     ELSE path_length - MaxHop * (NumChunks - 1))
              /\ SegmentQueries[i].hops \in 1 .. MaxHop
        /\ pc \in {"await_boundary", "await_segment"} => chunk_size = InFlight.hops
        /\ (Done /\ ReturnsList)
              => (Len(SegmentQueries) = NumChunks /\ SumHops(SegmentQueries) = path_length))

C12_Witness ==
    /\ Done /\ Segmented /\ ReturnsList
    /\ path_length = 2 * MaxHop
    /\ Len(SegmentQueries) = 2
    /\ SegmentQueries[2].hops = MaxHop

\* the shortest distance from a to b in the store, 0 from a node to itself
HopsBetween(a, b) ==
    IF a = b THEN 0 ELSE ShortestHopCount(Edges, a, b, Cardinality(Edges) + 1)

(* C13: every boundary node used as a segment endpoint lies on a shortest
   path from start to end: at every head of the chunk loop the current start
   node is at shortest distance L - remaining from start and at shortest
   distance remaining from end. *)
C13_BoundaryOnShortestPath ==
    (Segmented /\ pc = "loop_head" /\ fault = <<>> /\ remaining_path_length > 0)
    => (/\ HopsBetween(start_node_id, current_start_node)
              = path_length - remaining_path_length
        /\ HopsBetween(current_start_node, end_node_id) = remaining_path_length)

\* the number of segment queries among the first i queries
SegmentsUpTo(i) == Cardinality({ j \in 1 .. i : queries[j].kind = "segment" })

\* a query of the request is in flight
Awaiting ==
    pc \in {"await_length", "await_boundary", "await_segment", "await_single", "await_simple"}

(* C14: the pipeline is ordered and chained: the length query comes first
   and alone; queries run one at a time; a boundary-discovery query is issued
   only for a chunk that is not the last and is followed by that chunk's
   segment query, from the same node with the same hop count; the first
   segment query starts at the request's start node, each later one where
   the previous one ended; a segment query without a boundary query before
   it, and the last one of a completed run, ends at the request's end node. *)
C14_PipelineOrder ==
    (Segmented /\ queries # <<>>)
    => (/\ queries[1].kind = "length"
        /\ \A i \in 2 .. Len(queries) : queries[i].kind # "length"
        /\ snapshot.open = (IF Awaiting THEN 1 ELSE 0)
        /\ \A i \in 1 .. Len(queries) :
              queries[i].kind = "boundary"
              => (/\ SegmentsUpTo(i) + 1 < NumChunks
                  /\ i < Len(queries)
                     => (/\ queries[i + 1].kind = "segment"
                         /\ queries[i + 1].start_node = queries[i].start_node
                         /\ queries[i + 1].hops = queries[i].hops))
        /\ \A i \in 2 .. Len(queries) :
              (queries[i].kind = "segment" /\ queries[i - 1].kind # "boundary")
              => queries[i].end_node = <<end_node_id>>
        /\ \A j \in 1 .. Len(SegmentQueries) :
              SegmentQueries[j].start_node =
                 (IF j = 1 THEN start_node_id ELSE SegmentQueries[j - 1].end_node[1])
        /\ (Done /\ ReturnsList)
              => SegmentQueries[Len(SegmentQueries)].end_node = <<end_node_id>>)

C14_Witness ==
    /\ Done /\ Segmented /\ ReturnsList
    /\ Count("boundary") = 2
    /\ Len(SegmentQueries) = 3
    /\ SegmentQueries[2].start_node # start_node_id

(* C15: a request holds at most one open snapshot at any time, every
   snapshot serves exactly one query, and when the handler has returned, on
   any path, no snapshot of the request is open. *)
C15_SnapshotScoping ==
    /\ snapshot.open \in {0, 1}
    /\ snapshot.opened = Len(queries)
    /\ Awaiting <=> snapshot.open = 1
    /\ Done => snapshot.open = 0

C15_Witness ==
    /\ Done /\ Segmented
    /\ fault # <<>>
    /\ snapshot.opened >= 3
    /\ snapshot.open = 0

(* C16: all queries of one invocation observe one version of the store: when
   another client modifies the graph between two queries, the invocation
   still returns what a single version gives, the L edges of a path from
   start to end for the length L it resolved.  Stated on the two graphs the
   other client switches between, where the boundary node is unique. *)
C16_OneStoreVersion ==
    (Done /\ Segmented /\ fault = <<>> /\ store \in WrittenStores /\ path_length > 0)
    => (ReturnsList
        /\ Len(Resp.body.items) = path_length
        /\ Contiguous(Resp.body.items)
        /\ Resp.body.items[1].STARTNODEID = start_node_id
        /\ Resp.body.items[path_length].ENDNODEID = end_node_id)

(* C17: concurrent requests are isolated: in any interleaving of the steps
   of two requests against an unchanged store, the locals of a request
   (remaining length, current start node, collected edges, query text and
   the rest of its frame) are changed by its own steps only, and each
   request returns a response it could have returned when served alone. *)
C17_RequestsIsolated ==
    [][/\ (response = <<>> /\ response' # <<>> /\ running' = running)
            => response'[1] \in AloneResponses(service, Edges, args)
       /\ IF running' = running
          THEN parked = <<>> \/ parked' = parked
          ELSE parked' = << Frame >> /\ Frame' = parked[1]]_vars

C17_Witness ==
    /\ parked # <<>>
    /\ pc = "await_segment" /\ outputs # <<>>
    /\ parked[1].pc = "await_boundary" /\ parked[1].outputs # <<>>
    /\ parked[1].args # args

(* C18: every request terminates with exactly one response.  The remaining
   length is never negative; each iteration of the chunk loop fetches a chunk
   of at least one edge and lowers the remaining length by exactly that
   chunk; at the head of the loop the remaining length is the resolved
   length less the chunks fetched so far; the loop runs at most
   ceil(L/MaxHop) times. *)
C18_TerminatesWithOneResponse ==
    /\ [](remaining_path_length >= 0)
    /\ []((Segmented /\ pc = "loop_head")
            => remaining_path_length = path_length - SumHops(SegmentQueries))
    /\ [](Segmented => Len(SegmentQueries) <= NumChunks)
    /\ [](Len(response) <= 1 /\ (Done <=> response # <<>>))
    /\ [][(pc = "await_segment" /\ pc' = "loop_head")
            => /\ chunk_size >= 1
               /\ remaining_path_length' = remaining_path_length - chunk_size
               /\ remaining_path_length' < remaining_path_length]_vars
    /\ [][(response # <<>> /\ invocation' = invocation) => response' = response]_vars
    /\ ((pc = "receive") ~> Done)

C18_Witness ==
    /\ Done /\ Segmented /\ ReturnsList
    /\ path_length > 2 * MaxHop
    /\ path_length % MaxHop # 0
    /\ remaining_path_length = 0
    /\ Len(SegmentQueries) = NumChunks
    /\ invocation = 1

(* C19: for every store and every pair whose shortest length is in
   1..MaxHop the segmented service and the single-query service have the same
   possible responses, status and edge list: the two sets are equal, and
   whatever either service returns is a response of the other. *)
C19_SameResponsesUpToMaxHop ==
    (Done /\ queries # <<>> /\ TrueLength >= 1 /\ TrueLength <= MaxHop)
    => (/\ SegmentedResponses(Edges, start_node_id, end_node_id)
             = SimpleResponses(Edges, start_node_id, end_node_id)
        /\ Resp \in FaultResponses \cup
                    (IF Segmented
                     THEN SimpleResponses(Edges, start_node_id, end_node_id)
                     ELSE SegmentedResponses(Edges, start_node_id, end_node_id)))

C19_Witness ==
    /\ Done /\ service = "single" /\ fault = <<>> /\ queries # <<>>
    /\ TrueLength = MaxHop
    /\ ReturnsList
    /\ Resp \in SegmentedResponses(Edges, start_node_id, end_node_id)

====
